---- MODULE Spec2Model ----
(***************************************************************************)
(* Model of src/databasecheck/databasecheck.py (class DatabaseCheck).      *)
(*                                                                         *)
(* Two groups of state:                                                    *)
(*   - the comparator check_against_database (lines 288-308), stepped one  *)
(*     loop iteration at a time over its two nested for loops;             *)
(*   - the transport / artifact path: get_artifact (226-251),              *)
(*     raw_http_request (377-407), handle_rate_limiting (409-426) and the  *)
(*     with block of get_sketches_reports (259-280).                       *)
(***************************************************************************)
EXTENDS Integers, Sequences, FiniteSets, TLC

(***************************************************************************)
(* Bounds of the model.                                                    *)
(***************************************************************************)
MaxReports == 2
MaxDatabase == 2

(***************************************************************************)
(* Report dictionaries as the comparator reads them: ReportKeys.name,      *)
(* ReportKeys.compilation_success (a string, compared with "true" and      *)
(* "false"), and the board identifier ReportKeys.board, which the          *)
(* comparator never reads.                                                 *)
(***************************************************************************)
Names == {"Blink", "Fade"}
SuccessValues == {"true", "false", "True"}
Boards == {"uno", "mega"}

ReportsOneBoard == [name : Names, compilation_success : SuccessValues, board : {"uno"}]
ReportsManyBoards == [name : Names, compilation_success : {"true", "false"}, board : Boards]

SeqsBetween(S, lo, hi) == UNION {[1..n -> S] : n \in lo..hi}

VARIABLES
    sketches_reports,             \* argument of check_against_database
    database_report,              \* argument of check_against_database
    all_compilations_successful,  \* local, line 294
    sketch_report,                \* index of the outer for loop, line 296
    sketch_of_database,           \* index of the inner for loop, line 299
    name_report,                  \* local, line 298
    cpc,                          \* position in check_against_database
    stdout,                       \* lines printed
    exit_code,                    \* -1 while running, else the process exit status
    caller,                       \* who calls raw_http_request: get_artifact or http_request
    url,                          \* the URL that caller asks for
    retry_predicate,              \* the exception classes determine_urlopen_retry accepts
    fpc,                          \* position in get_artifact / http_request / get_sketches_reports
    frames,                       \* active calls of raw_http_request, innermost last
    hpc,                          \* position in the innermost raw_http_request
    response,                     \* what the last urlopen returned
    exc,                          \* the exception being raised or handled, "none" if none
    opens,                        \* every urlopen call so far: URL and outcome
    done_call,                    \* the raw_http_request call that ended last
    tmpdir,                       \* the TemporaryDirectory of line 233
    ga_error,                     \* the exception raised inside the try of get_artifact
    directory,                    \* the files of the report folder: file name -> content
    report_files,                 \* sorted(artifact_folder.iterdir()), line 263
    file_index,                   \* position of report_filename in report_files
    gsr_reports,                  \* the local sketches_reports of get_sketches_reports
    retained_files,               \* the file name behind each entry of gsr_reports
    lpc,                          \* position in get_sketches_reports
    rpc,                          \* position in database_check
    trace,                        \* the stages database_check has completed
    apc,                          \* position in report_size_deltas_from_workflow_artifacts
    active,                       \* the pagination loop that is executing
    page_number,                  \* local of each loop, lines 113, 175, 207
    page_count,                   \* local of each loop, lines 114, 176, 208
    api_data,                     \* local of each loop, lines 116, 178, 210
    left,                         \* items of the page the for loop has yet to reach
    requests,                     \* page numbers each loop has requested
    response_data,                \* local of get_json_response, line 336
    pr_data,                      \* loop variable, line 119
    run_data,                     \* loop variable, line 185
    artifact_data,                \* loop variable, line 216
    artifact_download_url,        \* local, line 136
    match_listed                  \* a report artifact was listed for the pull request

cvars == <<sketches_reports, database_report, all_compilations_successful,
           sketch_report, sketch_of_database, name_report, cpc>>

pvars == <<stdout, exit_code>>

fvars == <<caller, url, retry_predicate, fpc, frames, hpc, response, exc, opens,
           done_call, tmpdir, ga_error>>

lvars == <<directory, report_files, file_index, gsr_reports, retained_files, lpc>>

\* the state of the operations modelled further down
rvars == <<rpc, trace>>

avars == <<apc, active, page_number, page_count, api_data, left, requests, response_data,
           pr_data, run_data, artifact_data, artifact_download_url, match_listed>>

xvars == <<lvars, rvars, avars>>

vars == <<cvars, pvars, fvars, xvars>>

\* no report folder is being read
LoaderIdle ==
    /\ directory = <<>>
    /\ report_files = <<>>
    /\ file_index = 0
    /\ gsr_reports = <<>>
    /\ retained_files = <<>>
    /\ lpc = "idle"

\* database_check is not modelled as running
RunIdle ==
    /\ rpc = "idle"
    /\ trace = <<>>

\* report_size_deltas_from_workflow_artifacts is not modelled as running
PollIdle ==
    /\ apc = "idle"
    /\ active = "none"
    /\ page_number = [l \in {"pulls", "runs", "artifacts"} |-> 0]
    /\ page_count = [l \in {"pulls", "runs", "artifacts"} |-> 0]
    /\ api_data = [l \in {"pulls", "runs", "artifacts"} |-> 0]
    /\ left = [l \in {"pulls", "runs", "artifacts"} |-> 0]
    /\ requests = [l \in {"pulls", "runs", "artifacts"} |-> <<>>]
    /\ response_data = 0
    /\ pr_data = 0
    /\ run_data = 0
    /\ artifact_data = 0
    /\ artifact_download_url = "unset"
    /\ match_listed = FALSE

ExtensionIdle == LoaderIdle /\ RunIdle /\ PollIdle

NoCall == [url |-> <<>>, attempts |-> <<>>, via |-> "none", result |-> "none"]

NoError == [step |-> "none", exception |-> "none"]

(***************************************************************************)
(* check_against_database, lines 288-308.                                  *)
(***************************************************************************)
\* a slip that treats everything but "true" as a failed compilation
CompilationFailed_NotTrue(report) == report.compilation_success # "true"

\* line 297
CompilationFailed(report) == report.compilation_success = "false"

\* a slip that takes the first database entry whatever its name
NameMatches_Any(entry, name) == TRUE

\* line 300
NameMatches(entry, name) == entry.name = name

\* a slip that assigns the verdict on every match instead of only clearing it
UpdateVerdict_LastMatchWins(ok, entry) == entry.compilation_success # "true"

\* lines 301-302: the verdict is only ever cleared, never set back
UpdateVerdict(ok, entry) ==
    IF entry.compilation_success = "true" THEN FALSE ELSE ok

\* line 294 and entry of the loop at line 296
CompareStart ==
    /\ cpc = "call"
    /\ all_compilations_successful' = TRUE
    /\ sketch_report' = 1
    /\ cpc' = "for_report"
    /\ UNCHANGED <<sketches_reports, database_report, sketch_of_database,
                   name_report, stdout, exit_code>>
    /\ UNCHANGED fvars
    /\ UNCHANGED xvars

\* line 296-297: a report that does not denote failure is passed over
ReportSkip ==
    /\ cpc = "for_report"
    /\ sketch_report <= Len(sketches_reports)
    /\ ~CompilationFailed(sketches_reports[sketch_report])
    /\ sketch_report' = sketch_report + 1
    /\ UNCHANGED <<sketches_reports, database_report, all_compilations_successful,
                   sketch_of_database, name_report, cpc, stdout, exit_code>>
    /\ UNCHANGED fvars
    /\ UNCHANGED xvars

\* lines 296-299: a failed report starts a scan of the database
ReportFailed ==
    /\ cpc = "for_report"
    /\ sketch_report <= Len(sketches_reports)
    /\ CompilationFailed(sketches_reports[sketch_report])
    /\ name_report' = sketches_reports[sketch_report].name
    /\ sketch_of_database' = 1
    /\ cpc' = "for_database"
    /\ UNCHANGED <<sketches_reports, database_report, all_compilations_successful,
                   sketch_report, stdout, exit_code>>
    /\ UNCHANGED fvars
    /\ UNCHANGED xvars

\* lines 299-300: the entry's name differs, go on with the next entry
DatabaseNoMatch ==
    /\ cpc = "for_database"
    /\ sketch_of_database <= Len(database_report)
    /\ ~NameMatches(database_report[sketch_of_database], name_report)
    /\ sketch_of_database' = sketch_of_database + 1
    /\ UNCHANGED <<sketches_reports, database_report, all_compilations_successful,
                   sketch_report, name_report, cpc, stdout, exit_code>>
    /\ UNCHANGED fvars
    /\ UNCHANGED xvars

\* a slip that forgets the break of line 303 and goes on scanning
DatabaseMatch_NoBreak ==
    /\ cpc = "for_database"
    /\ sketch_of_database <= Len(database_report)
    /\ NameMatches(database_report[sketch_of_database], name_report)
    /\ all_compilations_successful' =
           UpdateVerdict(all_compilations_successful, database_report[sketch_of_database])
    /\ sketch_of_database' = sketch_of_database + 1
    /\ UNCHANGED <<sketches_reports, database_report, sketch_report,
                   name_report, cpc, stdout, exit_code>>
    /\ UNCHANGED fvars
    /\ UNCHANGED xvars

\* a slip that leaves the outer loop as soon as one inconsistency is found
DatabaseMatch_EarlyExit ==
    /\ cpc = "for_database"
    /\ sketch_of_database <= Len(database_report)
    /\ NameMatches(database_report[sketch_of_database], name_report)
    /\ all_compilations_successful' =
           UpdateVerdict(all_compilations_successful, database_report[sketch_of_database])
    /\ sketch_report' = sketch_report
    /\ cpc' = IF all_compilations_successful' THEN "for_report" ELSE "verdict"
    /\ UNCHANGED <<sketches_reports, database_report, sketch_of_database,
                   name_report, stdout, exit_code>>
    /\ UNCHANGED fvars
    /\ UNCHANGED xvars

\* lines 300-303: the entry's name matches: update the verdict and break
DatabaseMatch ==
    /\ cpc = "for_database"
    /\ sketch_of_database <= Len(database_report)
    /\ NameMatches(database_report[sketch_of_database], name_report)
    /\ all_compilations_successful' =
           UpdateVerdict(all_compilations_successful, database_report[sketch_of_database])
    /\ sketch_report' = sketch_report + 1
    /\ cpc' = "for_report"
    /\ UNCHANGED <<sketches_reports, database_report, sketch_of_database,
                   name_report, stdout, exit_code>>
    /\ UNCHANGED fvars
    /\ UNCHANGED xvars

\* line 299: the inner loop runs off the end of the database
DatabaseExhausted ==
    /\ cpc = "for_database"
    /\ sketch_of_database > Len(database_report)
    /\ sketch_report' = sketch_report + 1
    /\ cpc' = "for_report"
    /\ UNCHANGED <<sketches_reports, database_report, all_compilations_successful,
                   sketch_of_database, name_report, stdout, exit_code>>
    /\ UNCHANGED fvars
    /\ UNCHANGED xvars

\* line 296: the outer loop runs off the end of the reports
ReportsExhausted ==
    /\ cpc = "for_report"
    /\ sketch_report > Len(sketches_reports)
    /\ cpc' = "verdict"
    /\ UNCHANGED <<sketches_reports, database_report, all_compilations_successful,
                   sketch_report, sketch_of_database, name_report, stdout, exit_code>>
    /\ UNCHANGED fvars
    /\ UNCHANGED xvars

\* lines 306-308: print the annotation and sys.exit(1)
VerdictFailed ==
    /\ cpc = "verdict"
    /\ ~all_compilations_successful
    /\ stdout' = Append(stdout, "::error::One or more compilations failed")
    /\ exit_code' = 1
    /\ cpc' = "exited"
    /\ UNCHANGED <<sketches_reports, database_report, all_compilations_successful,
                   sketch_report, sketch_of_database, name_report>>
    /\ UNCHANGED fvars
    /\ UNCHANGED xvars

\* line 306: the method returns None, its caller (lines 107, 87, 27) returns
\* and the interpreter ends with status 0
VerdictPassed ==
    /\ cpc = "verdict"
    /\ all_compilations_successful
    /\ exit_code' = 0
    /\ cpc' = "returned"
    /\ UNCHANGED <<sketches_reports, database_report, all_compilations_successful,
                   sketch_report, sketch_of_database, name_report, stdout>>
    /\ UNCHANGED fvars
    /\ UNCHANGED xvars

CompareNext ==
    \/ CompareStart
    \/ ReportSkip
    \/ ReportFailed
    \/ DatabaseNoMatch
    \/ DatabaseMatch
    \/ DatabaseExhausted
    \/ ReportsExhausted
    \/ VerdictFailed
    \/ VerdictPassed

\* no request is in progress while the comparator runs
FetchIdle ==
    /\ caller = "none"
    /\ url = <<>>
    /\ retry_predicate = {}
    /\ fpc = "idle"
    /\ frames = <<>>
    /\ hpc = "idle"
    /\ response = "none"
    /\ exc = "none"
    /\ opens = <<>>
    /\ done_call = NoCall
    /\ tmpdir = "none"
    /\ ga_error = NoError

CompareInitWith(Reports) ==
    /\ sketches_reports \in SeqsBetween(Reports, 1, MaxReports)
    /\ database_report \in SeqsBetween(Reports, 0, MaxDatabase)
    /\ all_compilations_successful = TRUE
    /\ sketch_report = 0
    /\ sketch_of_database = 0
    /\ name_report = ""
    /\ cpc = "call"
    /\ stdout = <<>>
    /\ exit_code = -1
    /\ FetchIdle
    /\ ExtensionIdle

Init == CompareInitWith(ReportsOneBoard)

Next == CompareNext

Spec == Init /\ [][Next]_vars

\* The same comparator on reports of one sketch compiled for several boards.
InitBoards == CompareInitWith(ReportsManyBoards)

SpecBoards == InitBoards /\ [][Next]_vars

(***************************************************************************)
(* check_against_database as a function of its two arguments: the same     *)
(* two loops, run to their end (lines 294-306).                            *)
(***************************************************************************)
RECURSIVE ScanDatabase(_, _, _, _)
\* lines 299-303, from entry j on
ScanDatabase(database, name, j, ok) ==
    IF j > Len(database) THEN ok
    ELSE IF NameMatches(database[j], name) THEN UpdateVerdict(ok, database[j])
    ELSE ScanDatabase(database, name, j + 1, ok)

RECURSIVE CheckReports(_, _, _, _)
\* lines 296-303, from report i on
CheckReports(reports, database, i, ok) ==
    IF i > Len(reports) THEN ok
    ELSE IF CompilationFailed(reports[i])
         THEN CheckReports(reports, database, i + 1,
                           ScanDatabase(database, reports[i].name, 1, ok))
         ELSE CheckReports(reports, database, i + 1, ok)

\* lines 294-306: TRUE for a passing verdict
AllCompilationsSuccessful(reports, database) == CheckReports(reports, database, 1, TRUE)

(***************************************************************************)
(* Transport: raw_http_request (377-407) and handle_rate_limiting          *)
(* (409-426), which calls raw_http_request again through get_json_response *)
(* (326-359) and http_request (361-375).                                   *)
(***************************************************************************)
\* line 386
maximum_urlopen_retries == 3

\* URLs as their "/"-separated parts, so that startswith is a prefix test
DatabaseUrl == <<"https://github.com", "arduino", "actions">>
ArchiveUrl == <<"https://api.github.com", "repos", "actions", "artifacts", "zip">>
ApiRequestUrl == <<"https://api.github.com", "repos", "pulls">>
RateLimitUrl == <<"https://api.github.com", "rate_limit">>

StartsWith(s, prefix) == Len(prefix) <= Len(s) /\ SubSeq(s, 1, Len(prefix)) = prefix

\* a slip that gates every URL of the API host, the rate-limit endpoint too
RateLimitChecked_AllApi(u) == StartsWith(u, <<"https://api.github.com">>)

\* line 399
RateLimitChecked(u) ==
    /\ StartsWith(u, <<"https://api.github.com">>)
    /\ ~StartsWith(u, <<"https://api.github.com", "rate_limit">>)

\* what urlopen can raise: a transient network error, a permanent HTTP error
UrlopenExceptions == {"URLError", "HTTPError"}

\* what urlopen can return: the rate-limit endpoint reports the remaining
\* quota in a JSON body, any other URL returns its payload
Responses(u) ==
    IF u = RateLimitUrl THEN {"quota_left", "quota_zero", "malformed"} ELSE {"payload"}

\* the predicates determine_urlopen_retry may be
RetryPredicates == {{"URLError"}, {"URLError", "TimeoutError"}}

\* line 403
determine_urlopen_retry(exception) == exception \in retry_predicate

\* a bare except, which also catches SystemExit
IsException_BareExcept(e) == TRUE

\* "except Exception" (lines 249, 358, 402): SystemExit is no Exception
IsException(e) == e # "SystemExit"

\* a slip that allows one more pass of the loop
LoopContinues_OneMore(retry_count) == retry_count <= maximum_urlopen_retries + 1

\* line 395
LoopContinues(retry_count) == retry_count <= maximum_urlopen_retries

Top == frames[Len(frames)]

Pop == SubSeq(frames, 1, Len(frames) - 1)

NewFrame(u) == [url |-> u, retry_count |-> 0, attempts |-> <<>>]

\* the innermost raw_http_request returns r (line 401): control is back in
\* handle_rate_limiting (line 413) or in the caller (line 238 or 372)
FrameReturns(r) ==
    /\ done_call' = [url |-> Top.url, attempts |-> Append(Top.attempts, "ok"),
                     via |-> "return", result |-> r]
    /\ frames' = Pop
    /\ response' = r
    /\ IF Len(frames) > 1
       THEN hpc' = "rate_limit_response" /\ fpc' = fpc
       ELSE hpc' = "idle" /\ fpc' = (IF caller = "get_artifact" THEN "ga_write" ELSE "hr_read")

\* the innermost raw_http_request is left by exception e: e is then raised
\* inside the try block of the enclosing raw_http_request (line 400), or in
\* the caller (line 238 or 372)
FrameRaises(e, how) ==
    /\ done_call' = [url |-> Top.url, attempts |-> Top.attempts, via |-> how, result |-> e]
    /\ frames' = Pop
    /\ exc' = e
    /\ IF Len(frames) > 1
       THEN hpc' = "raising" /\ UNCHANGED <<fpc, ga_error>>
       ELSE /\ hpc' = "idle"
            /\ IF caller = "get_artifact"
               THEN fpc' = "ga_raising" /\ ga_error' = [step |-> "download", exception |-> e]
               ELSE fpc' = "uncaught" /\ UNCHANGED ga_error

\* lines 395-396
RH_LoopEnter ==
    /\ fpc = "http" /\ hpc = "while"
    /\ LoopContinues(Top.retry_count)
    /\ frames' = [frames EXCEPT ![Len(frames)].retry_count = @ + 1]
    /\ hpc' = "try"
    /\ UNCHANGED <<cvars, pvars, caller, url, retry_predicate, fpc, response, exc,
                   opens, done_call, tmpdir, ga_error>>
    /\ UNCHANGED xvars

\* lines 395, 407
RH_LoopExhausted ==
    /\ fpc = "http" /\ hpc = "while"
    /\ ~LoopContinues(Top.retry_count)
    /\ FrameRaises("TimeoutError", "exhausted")
    /\ UNCHANGED <<cvars, pvars, caller, url, retry_predicate, response, opens, tmpdir>>
    /\ UNCHANGED xvars

\* lines 399-400 and 413: handle_rate_limiting asks for the rate-limit URL
RH_RateLimitCheck ==
    /\ fpc = "http" /\ hpc = "try"
    /\ RateLimitChecked(Top.url)
    /\ frames' = Append(frames, NewFrame(RateLimitUrl))
    /\ hpc' = "while"
    /\ UNCHANGED <<cvars, pvars, caller, url, retry_predicate, fpc, response, exc,
                   opens, done_call, tmpdir, ga_error>>
    /\ UNCHANGED xvars

\* line 399: no rate-limit check for this URL
RH_NoRateLimitCheck ==
    /\ fpc = "http" /\ hpc = "try"
    /\ ~RateLimitChecked(Top.url)
    /\ hpc' = "urlopen"
    /\ UNCHANGED <<cvars, pvars, caller, url, retry_predicate, fpc, frames, response,
                   exc, opens, done_call, tmpdir, ga_error>>
    /\ UNCHANGED xvars

\* line 401: urlopen returns
RH_UrlopenReturns ==
    /\ fpc = "http" /\ hpc = "urlopen"
    /\ \E r \in Responses(Top.url) :
          /\ opens' = Append(opens, [url |-> Top.url, outcome |-> r])
          /\ FrameReturns(r)
    /\ UNCHANGED <<cvars, pvars, caller, url, retry_predicate, exc, tmpdir, ga_error>>
    /\ UNCHANGED xvars

\* line 401: urlopen raises
RH_UrlopenRaises ==
    /\ fpc = "http" /\ hpc = "urlopen"
    /\ \E e \in UrlopenExceptions :
          /\ opens' = Append(opens, [url |-> Top.url, outcome |-> e])
          /\ exc' = e
    /\ hpc' = "raising"
    /\ UNCHANGED <<cvars, pvars, caller, url, retry_predicate, fpc, frames, response,
                   done_call, tmpdir, ga_error>>
    /\ UNCHANGED xvars

\* line 402: the handler takes an Exception raised in the try block
RH_Catch ==
    /\ fpc = "http" /\ hpc = "raising"
    /\ IsException(exc)
    /\ frames' = [frames EXCEPT ![Len(frames)].attempts = Append(@, exc)]
    /\ hpc' = "except"
    /\ UNCHANGED <<cvars, pvars, caller, url, retry_predicate, fpc, response, exc,
                   opens, done_call, tmpdir, ga_error>>
    /\ UNCHANGED xvars

\* line 402: what is no Exception passes the handler and leaves the call
RH_Propagate ==
    /\ fpc = "http" /\ hpc = "raising"
    /\ ~IsException(exc)
    /\ FrameRaises(exc, "uncaught")
    /\ UNCHANGED <<cvars, pvars, caller, url, retry_predicate, response, opens, tmpdir>>
    /\ UNCHANGED xvars

\* line 403: the predicate accepts the exception, back to the loop test
RH_Retry ==
    /\ fpc = "http" /\ hpc = "except"
    /\ determine_urlopen_retry(exc)
    /\ exc' = "none"
    /\ hpc' = "while"
    /\ UNCHANGED <<cvars, pvars, caller, url, retry_predicate, fpc, frames, response,
                   opens, done_call, tmpdir, ga_error>>
    /\ UNCHANGED xvars

\* lines 403-404: the predicate refuses the exception, which is raised again
RH_Reraise ==
    /\ fpc = "http" /\ hpc = "except"
    /\ ~determine_urlopen_retry(exc)
    /\ FrameRaises(exc, "reraise")
    /\ UNCHANGED <<cvars, pvars, caller, url, retry_predicate, response, opens, tmpdir>>
    /\ UNCHANGED xvars

\* lines 338-343: the body of the rate-limit response is no JSON
HRL_DecodeError ==
    /\ fpc = "http" /\ hpc = "rate_limit_response"
    /\ response = "malformed"
    /\ exc' = "JSONDecodeError"
    /\ hpc' = "raising"
    /\ UNCHANGED <<cvars, pvars, caller, url, retry_predicate, fpc, frames, response,
                   opens, done_call, tmpdir, ga_error>>
    /\ UNCHANGED xvars

\* line 422 is false: handle_rate_limiting returns, line 401 is next
HRL_QuotaLeft ==
    /\ fpc = "http" /\ hpc = "rate_limit_response"
    /\ response = "quota_left"
    /\ hpc' = "urlopen"
    /\ UNCHANGED <<cvars, pvars, caller, url, retry_predicate, fpc, frames, response,
                   exc, opens, done_call, tmpdir, ga_error>>
    /\ UNCHANGED xvars

\* lines 422-426: print the warning and sys.exit(0)
HRL_QuotaZero ==
    /\ fpc = "http" /\ hpc = "rate_limit_response"
    /\ response = "quota_zero"
    /\ stdout' = Append(stdout, "::warning::GitHub API request quota has been reached. Giving up for now.")
    /\ exc' = "SystemExit"
    /\ hpc' = "raising"
    /\ UNCHANGED <<cvars, exit_code, caller, url, retry_predicate, fpc, frames, response,
                   opens, done_call, tmpdir, ga_error>>
    /\ UNCHANGED xvars

\* line 372: http_request calls raw_http_request
HR_Call ==
    /\ fpc = "start" /\ caller = "http_request"
    /\ frames' = <<NewFrame(url)>>
    /\ fpc' = "http"
    /\ hpc' = "while"
    /\ UNCHANGED <<cvars, pvars, caller, url, retry_predicate, response, exc, opens,
                   done_call, tmpdir, ga_error>>
    /\ UNCHANGED xvars

\* lines 373-375: http_request returns the body and the headers
HR_Return ==
    /\ fpc = "hr_read"
    /\ fpc' = "returned"
    /\ UNCHANGED <<cvars, pvars, caller, url, retry_predicate, frames, hpc, response,
                   exc, opens, done_call, tmpdir, ga_error>>
    /\ UNCHANGED xvars

(***************************************************************************)
(* get_artifact (226-251) and the with block of get_sketches_reports       *)
(* (259-280) that consumes the directory it returns.                       *)
(***************************************************************************)
\* line 233
GA_TemporaryDirectory ==
    /\ fpc = "start" /\ caller = "get_artifact"
    /\ tmpdir' = "created"
    /\ fpc' = "ga_open"
    /\ UNCHANGED <<cvars, pvars, caller, url, retry_predicate, frames, hpc, response,
                   exc, opens, done_call, ga_error>>
    /\ UNCHANGED xvars

\* a failing step inside the try block of lines 234-247
GA_Fails(step, e) ==
    /\ exc' = e
    /\ ga_error' = [step |-> step, exception |-> e]
    /\ fpc' = "ga_raising"

\* lines 236-237: open the archive file for writing
GA_OpenOutFile ==
    /\ fpc = "ga_open"
    /\ \/ fpc' = "ga_download" /\ UNCHANGED <<exc, ga_error>>
       \/ GA_Fails("open", "OSError")
    /\ UNCHANGED <<cvars, pvars, caller, url, retry_predicate, frames, hpc, response,
                   opens, done_call, tmpdir>>
    /\ UNCHANGED xvars

\* line 238: call raw_http_request
GA_Download ==
    /\ fpc = "ga_download"
    /\ frames' = <<NewFrame(url)>>
    /\ fpc' = "http"
    /\ hpc' = "while"
    /\ UNCHANGED <<cvars, pvars, caller, url, retry_predicate, response, exc, opens,
                   done_call, tmpdir, ga_error>>
    /\ UNCHANGED xvars

\* line 239: read the response and write the archive
GA_Write ==
    /\ fpc = "ga_write"
    /\ \/ fpc' = "ga_unzip" /\ UNCHANGED <<exc, ga_error>>
       \/ GA_Fails("write", "OSError")
    /\ UNCHANGED <<cvars, pvars, caller, url, retry_predicate, frames, hpc, response,
                   opens, done_call, tmpdir>>
    /\ UNCHANGED xvars

\* lines 242-244: unzip the archive
GA_Unzip ==
    /\ fpc = "ga_unzip"
    /\ \/ fpc' = "ga_remove" /\ UNCHANGED <<exc, ga_error>>
       \/ GA_Fails("unzip", "BadZipFile")
    /\ UNCHANGED <<cvars, pvars, caller, url, retry_predicate, frames, hpc, response,
                   opens, done_call, tmpdir>>
    /\ UNCHANGED xvars

\* lines 245-247: remove the archive and return the directory object, which
\* the caller hands to get_sketches_reports (lines 95-97, 146-148)
GA_RemoveAndReturn ==
    /\ fpc = "ga_remove"
    /\ \/ fpc' = "gs_with" /\ UNCHANGED <<exc, ga_error>>
       \/ GA_Fails("remove", "OSError")
    /\ UNCHANGED <<cvars, pvars, caller, url, retry_predicate, frames, hpc, response,
                   opens, done_call, tmpdir>>
    /\ UNCHANGED xvars

\* a slip that raises again without the cleanup
GA_Except_NoCleanup ==
    /\ fpc = "ga_raising"
    /\ IsException(exc)
    /\ fpc' = "uncaught"
    /\ UNCHANGED <<cvars, pvars, caller, url, retry_predicate, frames, hpc, response,
                   exc, opens, done_call, tmpdir, ga_error>>
    /\ UNCHANGED xvars

\* lines 249-251: clean the directory up and raise the exception again
GA_Except ==
    /\ fpc = "ga_raising"
    /\ IsException(exc)
    /\ tmpdir' = "cleaned"
    /\ fpc' = "uncaught"
    /\ UNCHANGED <<cvars, pvars, caller, url, retry_predicate, frames, hpc, response,
                   exc, opens, done_call, ga_error>>
    /\ UNCHANGED xvars

\* line 249: what is no Exception passes the handler
GA_Propagate ==
    /\ fpc = "ga_raising"
    /\ ~IsException(exc)
    /\ fpc' = "uncaught"
    /\ UNCHANGED <<cvars, pvars, caller, url, retry_predicate, frames, hpc, response,
                   exc, opens, done_call, tmpdir, ga_error>>
    /\ UNCHANGED xvars

\* lines 259-280: enter the with block and read the report files; reading or
\* parsing a file may raise
GS_Load ==
    /\ fpc = "gs_with"
    /\ \E e \in {"none", "OSError", "JSONDecodeError", "KeyError"} : exc' = e
    /\ fpc' = "gs_exit"
    /\ UNCHANGED <<cvars, pvars, caller, url, retry_predicate, frames, hpc, response,
                   opens, done_call, tmpdir, ga_error>>
    /\ UNCHANGED xvars

\* line 259: leaving the with block cleans the directory up, on a return as
\* on an exception
GS_WithExit ==
    /\ fpc = "gs_exit"
    /\ tmpdir' = "cleaned"
    /\ fpc' = (IF exc = "none" THEN "returned" ELSE "uncaught")
    /\ UNCHANGED <<cvars, pvars, caller, url, retry_predicate, frames, hpc, response,
                   exc, opens, done_call, ga_error>>
    /\ UNCHANGED xvars

\* lines 20-27: nothing above catches; SystemExit(0) ends the process with
\* status 0, an uncaught exception with a traceback and status 1
Uncaught ==
    /\ fpc = "uncaught"
    /\ exit_code' = (IF exc = "SystemExit" THEN 0 ELSE 1)
    /\ fpc' = (IF exc = "SystemExit" THEN "exited" ELSE "raised")
    /\ UNCHANGED <<cvars, stdout, caller, url, retry_predicate, frames, hpc, response,
                   exc, opens, done_call, tmpdir, ga_error>>
    /\ UNCHANGED xvars

FetchNext ==
    \/ RH_LoopEnter
    \/ RH_LoopExhausted
    \/ RH_RateLimitCheck
    \/ RH_NoRateLimitCheck
    \/ RH_UrlopenReturns
    \/ RH_UrlopenRaises
    \/ RH_Catch
    \/ RH_Propagate
    \/ RH_Retry
    \/ RH_Reraise
    \/ HRL_DecodeError
    \/ HRL_QuotaLeft
    \/ HRL_QuotaZero
    \/ HR_Call
    \/ HR_Return
    \/ GA_TemporaryDirectory
    \/ GA_OpenOutFile
    \/ GA_Download
    \/ GA_Write
    \/ GA_Unzip
    \/ GA_RemoveAndReturn
    \/ GA_Except
    \/ GA_Propagate
    \/ GS_Load
    \/ GS_WithExit
    \/ Uncaught

\* no comparison is in progress while a request is made
CompareIdle ==
    /\ sketches_reports = <<>>
    /\ database_report = <<>>
    /\ all_compilations_successful = TRUE
    /\ sketch_report = 0
    /\ sketch_of_database = 0
    /\ name_report = ""
    /\ cpc = "idle"

\* the calls of the program: get_artifact for the database (line 95) and for
\* an artifact archive of the API (line 146), http_request for an API
\* request (lines 323, 336)
Calls == {<<"get_artifact", DatabaseUrl>>,
          <<"get_artifact", ArchiveUrl>>,
          <<"http_request", ApiRequestUrl>>}

FetchInit ==
    /\ CompareIdle
    /\ stdout = <<>>
    /\ exit_code = -1
    /\ \E c \in Calls : caller = c[1] /\ url = c[2]
    /\ retry_predicate \in RetryPredicates
    /\ fpc = "start"
    /\ frames = <<>>
    /\ hpc = "idle"
    /\ response = "none"
    /\ exc = "none"
    /\ opens = <<>>
    /\ done_call = NoCall
    /\ tmpdir = "none"
    /\ ga_error = NoError
    /\ ExtensionIdle

SpecFetch == FetchInit /\ [][FetchNext]_vars

\* the interpreter runs one thread: a statement that can execute does
SpecFetchFair == FetchInit /\ [][FetchNext]_vars /\ WF_vars(FetchNext)

(***************************************************************************)
(* The report loader get_sketches_reports, lines 253-286.  A report file   *)
(* is its name (a number, ordered as sorted() orders the paths) and its    *)
(* content: text that json.load accepts or not, and the dictionary it      *)
(* parses to.  Dictionaries are functions whose DOMAIN is their key set.   *)
(***************************************************************************)
MaxFiles == 2

OldSizes == <<[name |-> "flash"]>>
NewSizes == <<[name |-> "flash", maximum |-> "32256"]>>

BoardLists ==
    { <<>>,
      <<[board |-> "uno"]>>,
      <<[board |-> "uno", sizes |-> <<>>]>>,
      <<[board |-> "uno", sizes |-> OldSizes]>>,
      <<[board |-> "uno", sizes |-> NewSizes]>>,
      <<[board |-> "uno", sizes |-> NewSizes], [board |-> "mega", sizes |-> NewSizes]>>,
      <<[board |-> "uno", sizes |-> NewSizes], [board |-> "mega"]>> }

ReportWithBoards(success, boards) ==
    [name |-> "Blink", compilation_success |-> success, commit_hash |-> "sha1",
     boards |-> boards]

ReportWithoutBoards ==
    [name |-> "Blink", compilation_success |-> "false", commit_hash |-> "sha1"]

NotJsonFile == [json |-> FALSE, data |-> [name |-> "garbage"]]

JsonFile(data) == [json |-> TRUE, data |-> data]

\* the file contents the loader is run on
LoaderFiles ==
    {NotJsonFile, JsonFile(ReportWithoutBoards)}
        \cup {JsonFile(ReportWithBoards("false", b)) : b \in BoardLists}

\* the orders in which iterdir() may yield the names of S
Enumerations(S) ==
    {q \in [1..Cardinality(S) -> S] : \A a, b \in 1..Cardinality(S) : q[a] = q[b] => a = b}

Remove(s, k) == [m \in 1..(Len(s) - 1) |-> IF m < k THEN s[m] ELSE s[m + 1]]

RECURSIVE sorted(_)
\* line 263: sorted(), smallest name first
sorted(s) ==
    IF s = <<>> THEN <<>>
    ELSE LET k == CHOOSE a \in 1..Len(s) : \A b \in 1..Len(s) : s[a] <= s[b]
         IN  <<s[k]>> \o sorted(Remove(s, k))

\* lines 267-271: the condition of the if, evaluated left to right; [0] on an
\* empty list raises IndexError, a missing key raises KeyError
Probe(report_data) ==
    IF "boards" \notin DOMAIN report_data THEN "skip"
    ELSE IF Len(report_data.boards) = 0 THEN "IndexError"
    ELSE IF "sizes" \notin DOMAIN report_data.boards[1] THEN "KeyError"
    ELSE IF Len(report_data.boards[1].sizes) = 0 THEN "IndexError"
    ELSE IF "maximum" \notin DOMAIN report_data.boards[1].sizes[1] THEN "skip"
    ELSE "keep"

RECURSIVE BoardLoop_NoBreak(_, _, _, _)
\* a slip that forgets the break of line 280
BoardLoop_NoBreak(boards, b, reports, report_data) ==
    IF b > Len(boards) THEN reports
    ELSE IF "sizes" \in DOMAIN boards[b]
         THEN BoardLoop_NoBreak(boards, b + 1, Append(reports, report_data), report_data)
         ELSE BoardLoop_NoBreak(boards, b + 1, reports, report_data)

RECURSIVE BoardLoop(_, _, _, _)
\* lines 276-280: append the report at the first board that has sizes
BoardLoop(boards, b, reports, report_data) ==
    IF b > Len(boards) THEN reports
    ELSE IF "sizes" \in DOMAIN boards[b] THEN Append(reports, report_data)
    ELSE BoardLoop(boards, b + 1, reports, report_data)

\* what the loader leaves alone
LoaderFrame == <<cvars, exit_code, caller, url, retry_predicate, fpc, frames, hpc,
                 response, opens, done_call, ga_error, rvars, avars>>

report_filename == report_files[file_index]

\* lines 259-263: enter the with block, list and sort the folder
GSR_Enter ==
    /\ lpc = "call"
    /\ \E listing \in Enumerations(DOMAIN directory) : report_files' = sorted(listing)
    /\ gsr_reports' = <<>>
    /\ retained_files' = <<>>
    /\ file_index' = 1
    /\ lpc' = "for_file"
    /\ UNCHANGED <<LoaderFrame, stdout, exc, tmpdir, directory>>

\* lines 265-266: json.load raises on a file that is no JSON
GSR_LoadRaises ==
    /\ lpc = "for_file"
    /\ file_index <= Len(report_files)
    /\ ~directory[report_filename].json
    /\ exc' = "JSONDecodeError"
    /\ lpc' = "with_exit"
    /\ UNCHANGED <<LoaderFrame, stdout, tmpdir, directory, report_files, file_index,
                   gsr_reports, retained_files>>

\* lines 265-274: an old-format report is announced and passed over
GSR_OldFormat ==
    /\ lpc = "for_file"
    /\ file_index <= Len(report_files)
    /\ directory[report_filename].json
    /\ Probe(directory[report_filename].data) = "skip"
    /\ stdout' = Append(stdout, "Old format sketches report found, skipping")
    /\ file_index' = file_index + 1
    /\ UNCHANGED <<LoaderFrame, exc, tmpdir, directory, report_files, gsr_reports,
                   retained_files, lpc>>

\* lines 265-271: the condition of line 267 raises
GSR_ProbeRaises ==
    /\ lpc = "for_file"
    /\ file_index <= Len(report_files)
    /\ directory[report_filename].json
    /\ Probe(directory[report_filename].data) \in {"IndexError", "KeyError"}
    /\ exc' = Probe(directory[report_filename].data)
    /\ lpc' = "with_exit"
    /\ UNCHANGED <<LoaderFrame, stdout, tmpdir, directory, report_files, file_index,
                   gsr_reports, retained_files>>

\* lines 265-280: a report of the current format goes through the loop over
\* its boards
GSR_NewFormat ==
    /\ lpc = "for_file"
    /\ file_index <= Len(report_files)
    /\ directory[report_filename].json
    /\ Probe(directory[report_filename].data) = "keep"
    /\ LET report_data == directory[report_filename].data
           appended == BoardLoop(report_data.boards, 1, gsr_reports, report_data)
       IN  /\ gsr_reports' = appended
           /\ retained_files' = retained_files \o
                 [k \in 1..(Len(appended) - Len(gsr_reports)) |-> report_filename]
    /\ file_index' = file_index + 1
    /\ UNCHANGED <<LoaderFrame, stdout, exc, tmpdir, directory, report_files, lpc>>

\* line 263: no file is left
GSR_FilesExhausted ==
    /\ lpc = "for_file"
    /\ file_index > Len(report_files)
    /\ lpc' = "with_exit"
    /\ UNCHANGED <<LoaderFrame, stdout, exc, tmpdir, directory, report_files, file_index,
                   gsr_reports, retained_files>>

\* line 259: leaving the with block releases a TemporaryDirectory (a local
\* folder has none); an exception then goes on to the caller
GSR_WithExit ==
    /\ lpc = "with_exit"
    /\ tmpdir' = (IF tmpdir = "created" THEN "cleaned" ELSE tmpdir)
    /\ lpc' = (IF exc = "none" THEN "after_with" ELSE "raised")
    /\ UNCHANGED <<LoaderFrame, stdout, exc, directory, report_files, file_index,
                   gsr_reports, retained_files>>

NoDataLine == "No size deltas data found in workflow artifact for this PR."

\* lines 282-286: the diagnostic for an empty list, then return
GSR_Return ==
    /\ lpc = "after_with"
    /\ stdout' = (IF gsr_reports = <<>> THEN Append(stdout, NoDataLine) ELSE stdout)
    /\ lpc' = "returned"
    /\ UNCHANGED <<LoaderFrame, exc, tmpdir, directory, report_files, file_index,
                   gsr_reports, retained_files>>

LoaderNext ==
    \/ GSR_Enter
    \/ GSR_LoadRaises
    \/ GSR_OldFormat
    \/ GSR_ProbeRaises
    \/ GSR_NewFormat
    \/ GSR_FilesExhausted
    \/ GSR_WithExit
    \/ GSR_Return

\* the loader called on a folder: a TemporaryDirectory of get_artifact
\* (lines 97, 148) or a local path (line 104)
LoaderInit ==
    /\ CompareIdle
    /\ stdout = <<>>
    /\ exit_code = -1
    /\ caller = "none"
    /\ url = <<>>
    /\ retry_predicate = {}
    /\ fpc = "idle"
    /\ frames = <<>>
    /\ hpc = "idle"
    /\ response = "none"
    /\ exc = "none"
    /\ opens = <<>>
    /\ done_call = NoCall
    /\ tmpdir \in {"created", "none"}
    /\ ga_error = NoError
    /\ directory \in SeqsBetween(LoaderFiles, 0, MaxFiles)
    /\ report_files = <<>>
    /\ file_index = 0
    /\ gsr_reports = <<>>
    /\ retained_files = <<>>
    /\ lpc = "call"
    /\ RunIdle
    /\ PollIdle

SpecLoader == LoaderInit /\ [][LoaderNext]_vars

(***************************************************************************)
(* The run for a pull_request event: database_check (82-91),               *)
(* get_database (93-99), database_check_from_local_reports (101-107).      *)
(* get_artifact is taken as one step here; the loader and the comparator   *)
(* run step by step as modelled above.                                     *)
(***************************************************************************)
\* the file contents of a run: current-format reports of Blink that succeeded
\* or failed and of Fade, an old-format report, a report with an empty boards
\* list, a file that is not JSON
RunFiles ==
    { JsonFile(ReportWithBoards("true", <<[board |-> "uno", sizes |-> NewSizes]>>)),
      JsonFile(ReportWithBoards("false", <<[board |-> "uno", sizes |-> NewSizes]>>)),
      JsonFile([ReportWithBoards("false", <<[board |-> "uno", sizes |-> NewSizes]>>)
                   EXCEPT !.name = "Fade"]),
      JsonFile(ReportWithoutBoards),
      JsonFile(ReportWithBoards("false", <<>>)),
      NotJsonFile }

RunFolders == SeqsBetween(RunFiles, 0, MaxFiles)

\* what get_artifact can raise (lines 236-245)
ArtifactErrors == {"TimeoutError", "HTTPError", "OSError", "BadZipFile"}

\* a slip that drops the test of line 106
HasReports_Always(reports) == TRUE

\* line 106 (and line 150): a non-empty list is true
HasReports(reports) == reports # <<>>

\* get_sketches_reports is entered on a folder
CallLoader(folder) ==
    /\ directory' = folder
    /\ report_files' = <<>>
    /\ file_index' = 0
    /\ gsr_reports' = <<>>
    /\ retained_files' = <<>>
    /\ lpc' = "call"

\* lines 84, 94-97: get_artifact returns the unpacked database folder, which
\* get_database hands to get_sketches_reports
Run_GetArtifact ==
    /\ rpc = "start"
    /\ tmpdir' = "created"
    /\ \E folder \in RunFolders : CallLoader(folder)
    /\ trace' = Append(trace, "database_fetched")
    /\ rpc' = "database_load"
    /\ UNCHANGED <<cvars, pvars, caller, url, retry_predicate, fpc, frames, hpc, response,
                   exc, opens, done_call, ga_error>>
    /\ UNCHANGED avars

\* lines 84, 95 and 249-251: get_artifact cleans up and raises
Run_GetArtifactRaises ==
    /\ rpc = "start"
    /\ \E e \in ArtifactErrors : exc' = e
    /\ tmpdir' = "cleaned"
    /\ rpc' = "uncaught"
    /\ UNCHANGED <<cvars, pvars, caller, url, retry_predicate, fpc, frames, hpc, response,
                   opens, done_call, ga_error, lvars, trace>>
    /\ UNCHANGED avars

\* lines 97-99, 84-87 and 103-104: the database is loaded; the event is
\* pull_request, so the loader is called on the local reports folder
Run_DatabaseLoaded ==
    /\ rpc = "database_load"
    /\ lpc = "returned"
    /\ database_report' = gsr_reports
    /\ \E folder \in RunFolders : CallLoader(folder)
    /\ trace' = Append(trace, "database_loaded")
    /\ rpc' = "local_load"
    /\ UNCHANGED <<sketches_reports, all_compilations_successful, sketch_report,
                   sketch_of_database, name_report, cpc, pvars, fvars>>
    /\ UNCHANGED avars

\* a slip that swallows a failure of the database load and goes on with an
\* empty database
Run_LoaderRaised_Swallowed ==
    /\ rpc \in {"database_load", "local_load"}
    /\ lpc = "raised"
    /\ IF rpc = "database_load"
       THEN /\ \E folder \in RunFolders : CallLoader(folder)
            /\ exc' = "none"
            /\ rpc' = "local_load"
       ELSE /\ rpc' = "uncaught"
            /\ UNCHANGED <<lvars, exc>>
    /\ UNCHANGED <<cvars, pvars, caller, url, retry_predicate, fpc, frames, hpc, response,
                   opens, done_call, tmpdir, ga_error, trace>>
    /\ UNCHANGED avars

\* lines 97 and 104: an exception of the loader is caught nowhere
Run_LoaderRaised ==
    /\ rpc \in {"database_load", "local_load"}
    /\ lpc = "raised"
    /\ rpc' = "uncaught"
    /\ UNCHANGED <<cvars, pvars, fvars, lvars, trace>>
    /\ UNCHANGED avars

\* lines 104-107: the reports are loaded and there are some: call the
\* comparator
Run_Compare ==
    /\ rpc = "local_load"
    /\ lpc = "returned"
    /\ HasReports(gsr_reports)
    /\ sketches_reports' = gsr_reports
    /\ cpc' = "call"
    /\ trace' = trace \o <<"actual_loaded", "comparator">>
    /\ rpc' = "compare"
    /\ UNCHANGED <<database_report, all_compilations_successful, sketch_report,
                   sketch_of_database, name_report, pvars, fvars, lvars>>
    /\ UNCHANGED avars

\* lines 104-106 and 27: no report is loaded; database_check returns and the
\* process ends with status 0
Run_NothingToCheck ==
    /\ rpc = "local_load"
    /\ lpc = "returned"
    /\ ~HasReports(gsr_reports)
    /\ sketches_reports' = gsr_reports
    /\ trace' = Append(trace, "actual_loaded")
    /\ exit_code' = 0
    /\ rpc' = "done"
    /\ UNCHANGED <<database_report, all_compilations_successful, sketch_report,
                   sketch_of_database, name_report, cpc, stdout, fvars, lvars>>
    /\ UNCHANGED avars

\* lines 20-27: the uncaught exception ends the process with status 1
Run_Uncaught ==
    /\ rpc = "uncaught"
    /\ exit_code' = 1
    /\ rpc' = "raised"
    /\ UNCHANGED <<cvars, stdout, fvars, lvars, trace>>
    /\ UNCHANGED avars

RunNext ==
    \/ Run_GetArtifact
    \/ Run_GetArtifactRaises
    \/ Run_DatabaseLoaded
    \/ Run_LoaderRaised
    \/ Run_Compare
    \/ Run_NothingToCheck
    \/ Run_Uncaught
    \/ LoaderNext
    \/ CompareNext

RunInit ==
    /\ CompareIdle
    /\ stdout = <<>>
    /\ exit_code = -1
    /\ FetchIdle
    /\ LoaderIdle
    /\ rpc = "start"
    /\ trace = <<>>
    /\ PollIdle

SpecRun == RunInit /\ [][RunNext]_vars

(***************************************************************************)
(* The run for any other event: report_size_deltas_from_workflow_artifacts *)
(* (109-163), get_artifact_download_url_for_sha (168-198),                 *)
(* get_artifact_download_url_for_run (200-224), api_request (310-324) and  *)
(* get_json_response (326-359).  A response fixes how many items its page  *)
(* holds; an item's fields are read when the for loop reaches it.          *)
(* get_artifact followed by get_sketches_reports is one step here, and so  *)
(* is check_against_database.                                              *)
(***************************************************************************)
\* the most items on a page and the largest page number in a Link header
MaxItems == 2
MaxPages == 2

Levels == {"pulls", "runs", "artifacts"}

Shas == {"sha1", "sha2"}

\* line 79: the configured name of the report artifact
sketches_reports_source == "sketches-reports"

\* the fields read of a pull request (lines 122, 123, 127); reported says
\* whether the repository already holds a report for its head commit
PullRequests == [locked : BOOLEAN, sha : Shas, reported : BOOLEAN]

\* the field read of a workflow run (line 186)
Runs == [head_sha : Shas]

\* the fields read of an artifact (lines 218, 219)
Artifacts == [name : {sketches_reports_source, "other"},
              archive_download_url : {"url1", "url2"}]

NoPullRequest == [locked |-> FALSE, sha |-> "none", reported |-> FALSE]
NoRun == [head_sha |-> "none"]
NoArtifact == [name |-> "none", archive_download_url |-> "none"]

\* a parsed body: a JSON array of length items (pulls), or a JSON object of
\* members members, one of which is the list of length items (runs, artifacts)
JsonBody(level, n) ==
    IF level = "pulls"
    THEN [type |-> "array", members |-> 0, length |-> n]
    ELSE [type |-> "object", members |-> 2, length |-> n]

NoBody == [type |-> "none", members |-> 0, length |-> 0]

\* the Link header: absent, or a list of relation entries
LinkHeaders ==
    {[present |-> FALSE, entries |-> <<>>],
     [present |-> TRUE, entries |-> <<[rel |-> "prev", page |-> 1], [rel |-> "first", page |-> 1]>>]}
    \cup {[present |-> TRUE,
           entries |-> <<[rel |-> "next", page |-> 2], [rel |-> "last", page |-> p]>>]
              : p \in 1..MaxPages}

NoResponseData == [body |-> NoBody, Link |-> [present |-> FALSE, entries |-> <<>>]]

\* what http_request returns for a request of the level
ResponsesFor(level) ==
    {[body |-> JsonBody(level, n), Link |-> h] : n \in 0..MaxItems, h \in LinkHeaders}

\* the page number of the "last" relation of the header, 1 without one
get_page_count(link_header) ==
    LET lasts == {k \in 1..Len(link_header.entries) : link_header.entries[k].rel = "last"}
    IN  IF ~link_header.present \/ lasts = {}
        THEN 1
        ELSE link_header.entries[CHOOSE k \in lasts : \A m \in lasts : k <= m].page

\* line 345: not json_data
Falsy(json_data) ==
    \/ json_data.type = "array" /\ json_data.length = 0
    \/ json_data.type = "object" /\ json_data.members = 0

\* a slip that reads the Link header for an empty body too
get_json_response_HeaderAlways(data) ==
    [json_data |-> data.body,
     additional_pages |-> get_page_count(data.Link) > 1,
     page_count |-> get_page_count(data.Link)]

\* lines 345-357
get_json_response(data) ==
    IF Falsy(data.body)
    THEN [json_data |-> data.body, additional_pages |-> FALSE, page_count |-> 0]
    ELSE [json_data |-> data.body,
          additional_pages |-> get_page_count(data.Link) > 1,
          page_count |-> get_page_count(data.Link)]

\* what the loop keeps of the dictionary once json_data is handed to the for
\* loop (lines 117, 181, 212)
PageData(result) ==
    [additional_pages |-> result.additional_pages, page_count |-> result.page_count]

NoApiData == [additional_pages |-> FALSE, page_count |-> -1]

\* whether the repository already holds a report for the head commit of the
\* pull request (lines 131-132)
report_exists(pr) == pr.reported

\* a slip that stops one page early
LoopCondition_Strict(number, count) == number < count

\* lines 115, 177, 209
LoopCondition(number, count) == number <= count

\* a slip that takes any artifact of the run
IsReportArtifact_Any(artifact) == TRUE

\* line 218
IsReportArtifact(artifact) == artifact.name = sketches_reports_source

\* a slip that drops the staleness check
Stale_Ignored(reports, sha) == FALSE

\* line 151
Stale(reports, sha) == reports[1].commit_hash # sha

\* the reports an artifact may hold
PollReports ==
    SeqsBetween([name : {"Blink"}, compilation_success : {"true", "false"},
                 commit_hash : Shas, board : {"uno"}], 0, MaxReports)

PollDatabases ==
    {<<[name |-> "Blink", compilation_success |-> "true", board |-> "uno"]>>}

\* what the modelled operations of this run leave alone
PollRest == <<sketch_report, sketch_of_database, name_report, caller, url,
              retry_predicate, fpc, frames, hpc, response, opens, done_call, tmpdir,
              ga_error, lvars, rvars>>

PollFrame == <<PollRest, all_compilations_successful, cpc>>

Reset(f, levels, v) == [l \in Levels |-> IF l \in levels THEN v ELSE f[l]]

\* lines 113-114, 175-176, 207-208: the function is entered
EnterLoop(level) ==
    /\ page_number' = [page_number EXCEPT ![level] = 1]
    /\ page_count' = [page_count EXCEPT ![level] = 1]
    /\ api_data' = [api_data EXCEPT ![level] = NoApiData]
    /\ left' = [left EXCEPT ![level] = 0]
    /\ requests' = [requests EXCEPT ![level] = <<>>]
    /\ active' = level
    /\ apc' = "while"

\* the functions of these levels return: their locals are gone
LeaveLoops(levels) ==
    /\ page_number' = Reset(page_number, levels, 0)
    /\ page_count' = Reset(page_count, levels, 0)
    /\ api_data' = Reset(api_data, levels, NoApiData)
    /\ left' = Reset(left, levels, 0)
    /\ requests' = Reset(requests, levels, <<>>)

\* lines 115-116, 177-181, 209-212: the condition holds and api_request is
\* called for the page
While(level) ==
    /\ apc = "while"
    /\ active = level
    /\ LoopCondition(page_number[level], page_count[level])
    /\ requests' = [requests EXCEPT ![level] = Append(@, page_number[level])]
    /\ apc' = "http"
    /\ UNCHANGED <<active, page_number, page_count, api_data, left, response_data, pr_data,
                   run_data, artifact_data, artifact_download_url, match_listed>>
    /\ UNCHANGED <<sketches_reports, database_report, stdout, exit_code, exc, PollFrame>>

\* lines 119 and 162-163, 185 and 193-194, 216 and 221-222: the items of the
\* page are used up
ForExhausted(level) ==
    /\ apc = "for"
    /\ active = level
    /\ left[level] = 0
    /\ page_number' = [page_number EXCEPT ![level] = @ + 1]
    /\ page_count' = [page_count EXCEPT ![level] = api_data[level].page_count]
    /\ apc' = "while"
    /\ UNCHANGED <<active, api_data, left, requests, response_data, pr_data, run_data,
                   artifact_data, artifact_download_url, match_listed>>
    /\ UNCHANGED <<sketches_reports, database_report, stdout, exit_code, exc, PollFrame>>

\* lines 336 and 361-375: http_request returns the response
AR_Http ==
    /\ apc = "http"
    /\ response_data' \in ResponsesFor(active)
    /\ apc' = "json"
    /\ UNCHANGED <<active, page_number, page_count, api_data, left, requests, pr_data,
                   run_data, artifact_data, artifact_download_url, match_listed>>
    /\ UNCHANGED <<sketches_reports, database_report, stdout, exit_code, exc, PollFrame>>

\* lines 336-343, 358-359, 407 and 426: the request fails or the body is
\* not JSON, which nothing up to main catches, or the rate limit is used up
\* and handle_rate_limiting ends the process with status 0
AR_HttpRaises ==
    /\ apc = "http"
    /\ \E e \in {"HTTPError", "TimeoutError", "JSONDecodeError", "SystemExit"} :
          /\ exc' = e
          /\ exit_code' = (IF e = "SystemExit" THEN 0 ELSE 1)
          /\ apc' = (IF e = "SystemExit" THEN "exited" ELSE "raised")
    /\ UNCHANGED <<active, page_number, page_count, api_data, left, requests, response_data,
                   pr_data, run_data, artifact_data, artifact_download_url, match_listed>>
    /\ UNCHANGED <<sketches_reports, database_report, stdout, PollFrame>>

\* lines 338 and 345-357, then 117, 181, 212: the body is parsed, the page
\* count resolved and the dictionary returned to the loop
AR_Json ==
    /\ apc = "json"
    /\ LET result == get_json_response(response_data)
       IN  /\ api_data' = [api_data EXCEPT ![active] = PageData(result)]
           /\ left' = [left EXCEPT ![active] = result.json_data.length]
    /\ response_data' = NoResponseData
    /\ apc' = "for"
    /\ UNCHANGED <<active, page_number, page_count, requests, pr_data, run_data,
                   artifact_data, artifact_download_url, match_listed>>
    /\ UNCHANGED <<sketches_reports, database_report, stdout, exit_code, exc, PollFrame>>

Pulls_While == While("pulls")

\* lines 115, 91 and 27: no page is left; the method and main return
Pulls_WhileExit ==
    /\ apc = "while"
    /\ active = "pulls"
    /\ ~LoopCondition(page_number["pulls"], page_count["pulls"])
    /\ LeaveLoops({"pulls"})
    /\ exit_code' = 0
    /\ apc' = "done"
    /\ UNCHANGED <<active, response_data, pr_data, run_data, artifact_data,
                   artifact_download_url, match_listed>>
    /\ UNCHANGED <<sketches_reports, database_report, stdout, exc, PollFrame>>

\* lines 119-124: the next pull request of the page; what the iteration
\* before left in artifact_download_url and sketches_reports is never read
\* again, and its call of check_against_database is over
Pulls_For ==
    /\ apc = "for"
    /\ active = "pulls"
    /\ left["pulls"] > 0
    /\ pr_data' \in PullRequests
    /\ left' = [left EXCEPT !["pulls"] = @ - 1]
    /\ artifact_download_url' = "unset"
    /\ sketches_reports' = <<>>
    /\ match_listed' = FALSE
    /\ all_compilations_successful' = TRUE
    /\ cpc' = "idle"
    /\ apc' = "body"
    /\ UNCHANGED <<active, page_number, page_count, api_data, requests, response_data,
                   run_data, artifact_data>>
    /\ UNCHANGED <<database_report, stdout, exit_code, exc, PollRest>>

Pulls_ForExhausted == ForExhausted("pulls")

\* lines 127-129
Pulls_Locked ==
    /\ apc = "body"
    /\ active = "pulls"
    /\ pr_data.locked
    /\ apc' = "for"
    /\ UNCHANGED <<active, page_number, page_count, api_data, left, requests, response_data,
                   pr_data, run_data, artifact_data, artifact_download_url, match_listed>>
    /\ UNCHANGED <<sketches_reports, database_report, stdout, exit_code, exc, PollFrame>>

\* lines 131-134
Pulls_ReportExists ==
    /\ apc = "body"
    /\ active = "pulls"
    /\ ~pr_data.locked
    /\ report_exists(pr_data)
    /\ apc' = "for"
    /\ UNCHANGED <<active, page_number, page_count, api_data, left, requests, response_data,
                   pr_data, run_data, artifact_data, artifact_download_url, match_listed>>
    /\ UNCHANGED <<sketches_reports, database_report, stdout, exit_code, exc, PollFrame>>

\* lines 136-139 and 175-176: get_artifact_download_url_for_sha is called
Pulls_FindArtifact ==
    /\ apc = "body"
    /\ active = "pulls"
    /\ ~pr_data.locked
    /\ ~report_exists(pr_data)
    /\ EnterLoop("runs")
    /\ UNCHANGED <<response_data, pr_data, run_data, artifact_data, artifact_download_url,
                   match_listed>>
    /\ UNCHANGED <<sketches_reports, database_report, stdout, exit_code, exc, PollFrame>>

Runs_While == While("runs")

\* lines 177, 197-198 and 136: no page of runs is left; None is returned
Runs_WhileExit ==
    /\ apc = "while"
    /\ active = "runs"
    /\ ~LoopCondition(page_number["runs"], page_count["runs"])
    /\ LeaveLoops({"runs"})
    /\ run_data' = NoRun
    /\ artifact_download_url' = "None"
    /\ active' = "pulls"
    /\ apc' = "url"
    /\ UNCHANGED <<response_data, pr_data, artifact_data, match_listed>>
    /\ UNCHANGED <<sketches_reports, database_report, stdout, exit_code, exc, PollFrame>>

\* line 185: the next run of the page
Runs_For ==
    /\ apc = "for"
    /\ active = "runs"
    /\ left["runs"] > 0
    /\ run_data' \in Runs
    /\ left' = [left EXCEPT !["runs"] = @ - 1]
    /\ apc' = "body"
    /\ UNCHANGED <<active, page_number, page_count, api_data, requests, response_data,
                   pr_data, artifact_data, artifact_download_url, match_listed>>
    /\ UNCHANGED <<sketches_reports, database_report, stdout, exit_code, exc, PollFrame>>

Runs_ForExhausted == ForExhausted("runs")

\* line 186: a run of another commit
Runs_OtherSha ==
    /\ apc = "body"
    /\ active = "runs"
    /\ run_data.head_sha # pr_data.sha
    /\ apc' = "for"
    /\ UNCHANGED <<active, page_number, page_count, api_data, left, requests, response_data,
                   pr_data, run_data, artifact_data, artifact_download_url, match_listed>>
    /\ UNCHANGED <<sketches_reports, database_report, stdout, exit_code, exc, PollFrame>>

\* lines 186-188 and 207-208: get_artifact_download_url_for_run is called
Runs_QueryArtifacts ==
    /\ apc = "body"
    /\ active = "runs"
    /\ run_data.head_sha = pr_data.sha
    /\ EnterLoop("artifacts")
    /\ UNCHANGED <<response_data, pr_data, run_data, artifact_data, artifact_download_url,
                   match_listed>>
    /\ UNCHANGED <<sketches_reports, database_report, stdout, exit_code, exc, PollFrame>>

Artifacts_While == While("artifacts")

\* lines 209, 223-224 and 188-189: no page of artifacts is left; None is
\* returned and the loop over the runs goes on
Artifacts_WhileExit ==
    /\ apc = "while"
    /\ active = "artifacts"
    /\ ~LoopCondition(page_number["artifacts"], page_count["artifacts"])
    /\ LeaveLoops({"artifacts"})
    /\ artifact_data' = NoArtifact
    /\ active' = "runs"
    /\ apc' = "for"
    /\ UNCHANGED <<response_data, pr_data, run_data, artifact_download_url, match_listed>>
    /\ UNCHANGED <<sketches_reports, database_report, stdout, exit_code, exc, PollFrame>>

\* line 216: the next artifact of the page; match_listed records that the
\* listing of a run of the head commit holds a report artifact
Artifacts_For ==
    /\ apc = "for"
    /\ active = "artifacts"
    /\ left["artifacts"] > 0
    /\ \E a \in Artifacts :
          /\ artifact_data' = a
          /\ match_listed' = (match_listed \/ a.name = sketches_reports_source)
    /\ left' = [left EXCEPT !["artifacts"] = @ - 1]
    /\ apc' = "body"
    /\ UNCHANGED <<active, page_number, page_count, api_data, requests, response_data,
                   pr_data, run_data, artifact_download_url>>
    /\ UNCHANGED <<sketches_reports, database_report, stdout, exit_code, exc, PollFrame>>

Artifacts_ForExhausted == ForExhausted("artifacts")

\* line 218: an artifact of another name
Artifacts_Other ==
    /\ apc = "body"
    /\ active = "artifacts"
    /\ ~IsReportArtifact(artifact_data)
    /\ apc' = "for"
    /\ UNCHANGED <<active, page_number, page_count, api_data, left, requests, response_data,
                   pr_data, run_data, artifact_data, artifact_download_url, match_listed>>
    /\ UNCHANGED <<sketches_reports, database_report, stdout, exit_code, exc, PollFrame>>

\* lines 218-219, 188-190 and 136: the URL is returned, through
\* get_artifact_download_url_for_sha, to the loop over the pull requests
Artifacts_Found ==
    /\ apc = "body"
    /\ active = "artifacts"
    /\ IsReportArtifact(artifact_data)
    /\ artifact_download_url' = artifact_data.archive_download_url
    /\ LeaveLoops({"runs", "artifacts"})
    /\ run_data' = NoRun
    /\ artifact_data' = NoArtifact
    /\ active' = "pulls"
    /\ apc' = "url"
    /\ UNCHANGED <<response_data, pr_data, match_listed>>
    /\ UNCHANGED <<sketches_reports, database_report, stdout, exit_code, exc, PollFrame>>

\* lines 140-143
Pulls_NoArtifact ==
    /\ apc = "url"
    /\ artifact_download_url = "None"
    /\ apc' = "for"
    /\ UNCHANGED <<active, page_number, page_count, api_data, left, requests, response_data,
                   pr_data, run_data, artifact_data, artifact_download_url, match_listed>>
    /\ UNCHANGED <<sketches_reports, database_report, stdout, exit_code, exc, PollFrame>>

\* lines 145-147: the artifact is fetched and its reports are loaded; of the
\* output of the run stdout holds the ::error:: annotation only
Pulls_GetReports ==
    /\ apc = "url"
    /\ artifact_download_url # "None"
    /\ sketches_reports' \in PollReports
    /\ apc' = "reports"
    /\ UNCHANGED <<active, page_number, page_count, api_data, left, requests, response_data,
                   pr_data, run_data, artifact_data, artifact_download_url, match_listed>>
    /\ UNCHANGED <<database_report, stdout, exit_code, exc, PollFrame>>

\* lines 145-147: get_artifact or the loader raises, or the rate limit is
\* used up
Pulls_GetReportsRaises ==
    /\ apc = "url"
    /\ artifact_download_url # "None"
    /\ \E e \in ArtifactErrors \cup {"IndexError", "SystemExit"} :
          /\ exc' = e
          /\ exit_code' = (IF e = "SystemExit" THEN 0 ELSE 1)
          /\ apc' = (IF e = "SystemExit" THEN "exited" ELSE "raised")
    /\ UNCHANGED <<active, page_number, page_count, api_data, left, requests, response_data,
                   pr_data, run_data, artifact_data, artifact_download_url, match_listed>>
    /\ UNCHANGED <<sketches_reports, database_report, stdout, PollFrame>>

\* line 150: nothing was loaded
Pulls_NoReports ==
    /\ apc = "reports"
    /\ ~HasReports(sketches_reports)
    /\ apc' = "for"
    /\ UNCHANGED <<active, page_number, page_count, api_data, left, requests, response_data,
                   pr_data, run_data, artifact_data, artifact_download_url, match_listed>>
    /\ UNCHANGED <<sketches_reports, database_report, stdout, exit_code, exc, PollFrame>>

\* lines 150-156: the first report is of another commit
Pulls_Stale ==
    /\ apc = "reports"
    /\ HasReports(sketches_reports)
    /\ Stale(sketches_reports, pr_data.sha)
    /\ apc' = "for"
    /\ UNCHANGED <<active, page_number, page_count, api_data, left, requests, response_data,
                   pr_data, run_data, artifact_data, artifact_download_url, match_listed>>
    /\ UNCHANGED <<sketches_reports, database_report, stdout, exit_code, exc, PollFrame>>

\* lines 158 and 294-306: check_against_database returns
Pulls_CheckPasses ==
    /\ apc = "reports"
    /\ HasReports(sketches_reports)
    /\ ~Stale(sketches_reports, pr_data.sha)
    /\ AllCompilationsSuccessful(sketches_reports, database_report)
    /\ cpc' = "returned"
    /\ apc' = "for"
    /\ UNCHANGED <<active, page_number, page_count, api_data, left, requests, response_data,
                   pr_data, run_data, artifact_data, artifact_download_url, match_listed>>
    /\ UNCHANGED <<sketches_reports, database_report, stdout, exit_code, exc, PollRest,
                   all_compilations_successful>>

\* a slip that reports the failure and goes on
Pulls_CheckFails_GoesOn ==
    /\ apc = "reports"
    /\ HasReports(sketches_reports)
    /\ ~Stale(sketches_reports, pr_data.sha)
    /\ ~AllCompilationsSuccessful(sketches_reports, database_report)
    /\ stdout' = Append(stdout, "::error::One or more compilations failed")
    /\ all_compilations_successful' = FALSE
    /\ cpc' = "returned"
    /\ apc' = "for"
    /\ UNCHANGED <<active, page_number, page_count, api_data, left, requests, response_data,
                   pr_data, run_data, artifact_data, artifact_download_url, match_listed>>
    /\ UNCHANGED <<sketches_reports, database_report, exit_code, exc, PollRest>>

\* lines 158 and 294-308: check_against_database prints the annotation and
\* ends the process with status 1
Pulls_CheckFails ==
    /\ apc = "reports"
    /\ HasReports(sketches_reports)
    /\ ~Stale(sketches_reports, pr_data.sha)
    /\ ~AllCompilationsSuccessful(sketches_reports, database_report)
    /\ stdout' = Append(stdout, "::error::One or more compilations failed")
    /\ all_compilations_successful' = FALSE
    /\ cpc' = "exited"
    /\ exit_code' = 1
    /\ exc' = "SystemExit"
    /\ apc' = "exited"
    /\ UNCHANGED <<active, page_number, page_count, api_data, left, requests, response_data,
                   pr_data, run_data, artifact_data, artifact_download_url, match_listed>>
    /\ UNCHANGED <<sketches_reports, database_report, PollRest>>

PollNext ==
    \/ Pulls_While
    \/ Pulls_WhileExit
    \/ Pulls_For
    \/ Pulls_ForExhausted
    \/ Pulls_Locked
    \/ Pulls_ReportExists
    \/ Pulls_FindArtifact
    \/ Runs_While
    \/ Runs_WhileExit
    \/ Runs_For
    \/ Runs_ForExhausted
    \/ Runs_OtherSha
    \/ Runs_QueryArtifacts
    \/ Artifacts_While
    \/ Artifacts_WhileExit
    \/ Artifacts_For
    \/ Artifacts_ForExhausted
    \/ Artifacts_Other
    \/ Artifacts_Found
    \/ AR_Http
    \/ AR_HttpRaises
    \/ AR_Json
    \/ Pulls_NoArtifact
    \/ Pulls_GetReports
    \/ Pulls_GetReportsRaises
    \/ Pulls_NoReports
    \/ Pulls_Stale
    \/ Pulls_CheckPasses
    \/ Pulls_CheckFails

\* lines 84-91 and 113-114: the database is loaded and the loop over the
\* pages of pull requests is about to start
PollInit ==
    /\ sketches_reports = <<>>
    /\ database_report \in PollDatabases
    /\ all_compilations_successful = TRUE
    /\ sketch_report = 0
    /\ sketch_of_database = 0
    /\ name_report = ""
    /\ cpc = "idle"
    /\ stdout = <<>>
    /\ exit_code = -1
    /\ FetchIdle
    /\ LoaderIdle
    /\ RunIdle
    /\ apc = "while"
    /\ active = "pulls"
    /\ page_number = [l \in Levels |-> IF l = "pulls" THEN 1 ELSE 0]
    /\ page_count = [l \in Levels |-> IF l = "pulls" THEN 1 ELSE 0]
    /\ api_data = [l \in Levels |-> NoApiData]
    /\ left = [l \in Levels |-> 0]
    /\ requests = [l \in Levels |-> <<>>]
    /\ response_data = NoResponseData
    /\ pr_data = NoPullRequest
    /\ run_data = NoRun
    /\ artifact_data = NoArtifact
    /\ artifact_download_url = "unset"
    /\ match_listed = FALSE

SpecPoll == PollInit /\ [][PollNext]_vars

(***************************************************************************)
(* Vocabulary of the properties.                                           *)
(***************************************************************************)
CompareDone == cpc \in {"verdict", "exited", "returned"}

CompareEnded == cpc \in {"exited", "returned"}

ErrorLine == "::error::One or more compilations failed"

\* the first database entry named like the report says "true" while the report says "false"
Inconsistent(report, database) ==
    /\ report.compilation_success = "false"
    /\ \E k \in 1..Len(database) :
          /\ database[k].name = report.name
          /\ \A m \in 1..(k - 1) : database[m].name # report.name
          /\ database[k].compilation_success = "true"

Unknown(report, database) == \A k \in 1..Len(database) : database[k].name # report.name

UniqueNames(database) ==
    \A k, m \in 1..Len(database) : database[k].name = database[m].name => k = m

IndexPermutations(n) == {p \in [1..n -> 1..n] : \A a, b \in 1..n : p[a] = p[b] => a = b}

Permute(s, p) == [k \in 1..Len(s) |-> s[p[k]]]

\* C1: the verdict is failed exactly when some actual report says "false" and the
\* first database entry of the same name says "true"; while the reports are
\* being examined the verdict is the conjunction over the reports examined so
\* far, so that a later report never turns it back to passing.
C1_VerdictIffFirstMatchInconsistent ==
    /\ cpc = "for_report" =>
          (all_compilations_successful <=>
              ~\E r \in 1..(sketch_report - 1) :
                    Inconsistent(sketches_reports[r], database_report))
    /\ CompareDone =>
          (all_compilations_successful <=>
              ~\E r \in 1..Len(sketches_reports) :
                    Inconsistent(sketches_reports[r], database_report))
    /\ cpc = "exited" =>
          \E r \in 1..Len(sketches_reports) :
              Inconsistent(sketches_reports[r], database_report)
    /\ cpc = "returned" =>
          ~\E r \in 1..Len(sketches_reports) :
              Inconsistent(sketches_reports[r], database_report)

\* C1 witness: a failed verdict set by the first report and kept although the
\* second report, also a failure, is consistent with the database
C1_Witness ==
    /\ cpc = "exited"
    /\ Len(sketches_reports) = 2
    /\ Inconsistent(sketches_reports[1], database_report)
    /\ sketches_reports[2].compilation_success = "false"
    /\ ~Inconsistent(sketches_reports[2], database_report)
    /\ ~Unknown(sketches_reports[2], database_report)

\* C2 as stated: no permutation of the actual reports or of the database
\* entries changes the verdict, whatever the database contains.
C2_AnyPermutationSameVerdict ==
    CompareDone =>
        \A pa \in IndexPermutations(Len(sketches_reports)) :
        \A pd \in IndexPermutations(Len(database_report)) :
            AllCompilationsSuccessful(Permute(sketches_reports, pa),
                                      Permute(database_report, pd))
                = all_compilations_successful

\* C2 as amended: no permutation of the actual reports changes the verdict;
\* no permutation of the database entries changes it when no sketch name
\* occurs twice in the database.
C2_PermutationSameVerdictUniqueNames ==
    CompareDone =>
        /\ \A pa \in IndexPermutations(Len(sketches_reports)) :
              AllCompilationsSuccessful(Permute(sketches_reports, pa), database_report)
                  = all_compilations_successful
        /\ UniqueNames(database_report) =>
              \A pa \in IndexPermutations(Len(sketches_reports)) :
              \A pd \in IndexPermutations(Len(database_report)) :
                  AllCompilationsSuccessful(Permute(sketches_reports, pa),
                                            Permute(database_report, pd))
                      = all_compilations_successful

\* C2 witness: two failed reports, one of them inconsistent, against a database
\* of two differently named entries
C2_Witness ==
    /\ cpc = "verdict"
    /\ Len(sketches_reports) = 2
    /\ Len(database_report) = 2
    /\ UniqueNames(database_report)
    /\ sketches_reports[1].name # sketches_reports[2].name
    /\ Inconsistent(sketches_reports[1], database_report)
    /\ sketches_reports[2].compilation_success = "false"
    /\ ~Inconsistent(sketches_reports[2], database_report)

\* C3: a failed verdict comes only from a database entry that has the name
\* and the board of a failed actual report.
C3_MatchOnNameAndBoard ==
    (CompareDone /\ ~all_compilations_successful) =>
        \E r \in 1..Len(sketches_reports) :
        \E k \in 1..Len(database_report) :
            /\ sketches_reports[r].compilation_success = "false"
            /\ database_report[k].name = sketches_reports[r].name
            /\ database_report[k].board = sketches_reports[r].board
            /\ database_report[k].compilation_success = "true"

\* C4: when no actual report says "false" the run never prints the annotation,
\* never exits with a failure and ends with a passing verdict, whatever the
\* database contains.
C4_NoFailureAlwaysPasses ==
    (\A r \in 1..Len(sketches_reports) : sketches_reports[r].compilation_success # "false") =>
        /\ all_compilations_successful
        /\ cpc # "exited"
        /\ stdout = <<>>
        /\ exit_code \in {-1, 0}
        /\ cpc = "returned" => exit_code = 0

\* C4 witness: a passing end with no failed report, a report that is not the
\* string "true" either, and a database whose entries all say "true"
C4_Witness ==
    /\ cpc = "returned"
    /\ \A r \in 1..Len(sketches_reports) : sketches_reports[r].compilation_success # "false"
    /\ \E r \in 1..Len(sketches_reports) : sketches_reports[r].compilation_success = "True"
    /\ Len(database_report) = 2
    /\ \A k \in 1..Len(database_report) :
          /\ database_report[k].compilation_success = "true"
          /\ \E r \in 1..Len(sketches_reports) :
                sketches_reports[r].name = database_report[k].name

\* the report under examination is a failure whose name is not in the database
ExaminingUnknownFailure ==
    /\ cpc \in {"for_report", "for_database"}
    /\ sketch_report \in 1..Len(sketches_reports)
    /\ sketches_reports[sketch_report].compilation_success = "false"
    /\ Unknown(sketches_reports[sketch_report], database_report)

\* C5: while a failed report whose name is not in the database is examined, no
\* step changes the verdict, and the examination of that report ends only
\* when the scan has run past the last database entry.
C5_UnknownSketchNotFlagged ==
    [][ExaminingUnknownFailure =>
           /\ all_compilations_successful' = all_compilations_successful
           /\ sketch_report' # sketch_report =>
                 /\ cpc = "for_database"
                 /\ sketch_of_database = Len(database_report) + 1
                 /\ sketch_report' = sketch_report + 1]_vars

\* C5 witness: the scan for an unknown failed report has passed the last of
\* two database entries, one of which says "true"
C5_Witness ==
    /\ ExaminingUnknownFailure
    /\ cpc = "for_database"
    /\ Len(database_report) = 2
    /\ sketch_of_database = 3
    /\ \E k \in 1..2 : database_report[k].compilation_success = "true"

\* C6: a failed verdict prints exactly one error annotation and exits 1, only
\* after every report was examined; a passing verdict prints nothing and the
\* run ends with 0; the two Blink examples end 1 and 0.
C6_VerdictToExitCode ==
    /\ cpc = "exited" =>
          /\ ~all_compilations_successful
          /\ stdout = <<ErrorLine>>
          /\ exit_code = 1
          /\ sketch_report = Len(sketches_reports) + 1
    /\ cpc = "returned" =>
          /\ all_compilations_successful
          /\ stdout = <<>>
          /\ exit_code = 0
    /\ ~CompareEnded => (stdout = <<>> /\ exit_code = -1)
    /\ cpc = "verdict" => sketch_report = Len(sketches_reports) + 1
    /\ (/\ CompareEnded
        /\ Len(sketches_reports) = 1
        /\ sketches_reports[1].name = "Blink"
        /\ sketches_reports[1].compilation_success = "false"
        /\ Len(database_report) = 1
        /\ database_report[1].name = "Blink") =>
          /\ database_report[1].compilation_success = "true" => exit_code = 1
          /\ database_report[1].compilation_success = "false" => exit_code = 0

\* C6 witness: the first Blink example has ended
C6_Witness ==
    /\ cpc = "exited"
    /\ exit_code = 1
    /\ sketches_reports = <<[name |-> "Blink", compilation_success |-> "false", board |-> "uno"]>>
    /\ database_report = <<[name |-> "Blink", compilation_success |-> "true", board |-> "uno"]>>

\* every entry of a except the last n is an exception the predicate accepts
AllRetryable(a, n) == \A k \in 1..n : a[k] \in retry_predicate

OpensOf(u) == {k \in 1..Len(opens) : opens[k].url = u}

\* C7: one raw_http_request makes at most 4 attempts; it returns on its
\* first successful attempt; an exception the predicate refuses is raised
\* again at once, after retryable ones only; 4 retryable failures in a row end
\* in the TimeoutError of line 407, and nothing else does.
C7_AtMostFourAttempts ==
    /\ \A f \in 1..Len(frames) :
          /\ frames[f].retry_count <= 4
          /\ Len(frames[f].attempts) <= frames[f].retry_count
          /\ AllRetryable(frames[f].attempts, Len(frames[f].attempts) - 1)
          /\ Cardinality(OpensOf(url)) <= 4
    /\ done_call.via # "none" =>
          LET a == done_call.attempts
              n == Len(a)
          IN  /\ n <= 4
              /\ done_call.via = "return" =>
                    /\ a[n] = "ok"
                    /\ AllRetryable(a, n - 1)
                    /\ done_call.result \in Responses(done_call.url)
              /\ done_call.via = "reraise" =>
                    /\ a[n] = done_call.result
                    /\ a[n] \notin retry_predicate
                    /\ AllRetryable(a, n - 1)
              /\ done_call.via = "exhausted" <=> (n = 4 /\ AllRetryable(a, 4))
              /\ done_call.via = "exhausted" => done_call.result = "TimeoutError"

\* C7 witness: the request for the database URL gave up after urlopen raised
\* a retryable exception four times
C7_Witness ==
    /\ fpc = "raised"
    /\ url = DatabaseUrl
    /\ done_call.url = DatabaseUrl
    /\ done_call.via = "exhausted"
    /\ done_call.attempts = <<"URLError", "URLError", "URLError", "URLError">>
    /\ Len(opens) = 4
    /\ exc = "TimeoutError"

\* C8: every urlopen of an API URL other than the rate-limit endpoint comes
\* right after a rate-limit query that reported quota left; a query that
\* reports no quota is the last urlopen of the run, is never taken by the
\* handler of line 402 nor retried, and ends the process with status 0.
C8_RateLimitGate ==
    /\ \A k \in 1..Len(opens) :
          (opens[k].url[1] = "https://api.github.com" /\ opens[k].url # RateLimitUrl) =>
              /\ k > 1
              /\ opens[k - 1] = [url |-> RateLimitUrl, outcome |-> "quota_left"]
    /\ \A k \in 1..Len(opens) :
          opens[k] = [url |-> RateLimitUrl, outcome |-> "quota_zero"] =>
              /\ k = Len(opens)
              /\ hpc \in {"rate_limit_response", "raising", "idle"}
              /\ hpc # "rate_limit_response" => exc = "SystemExit"
              /\ \A f \in 1..Len(frames) :
                    \A m \in 1..Len(frames[f].attempts) : frames[f].attempts[m] # "SystemExit"
              /\ fpc \in {"http", "ga_raising", "uncaught", "exited"}
              /\ exit_code \in {-1, 0}
              /\ fpc = "exited" => exit_code = 0

\* C8 witness: the second attempt of an API request found the quota used up
\* and the process ended with status 0 without opening the request again
C8_Witness ==
    /\ fpc = "exited"
    /\ exit_code = 0
    /\ url = ApiRequestUrl
    /\ Len(opens) = 3
    /\ opens[2] = [url |-> ApiRequestUrl, outcome |-> "URLError"]
    /\ opens[3] = [url |-> RateLimitUrl, outcome |-> "quota_zero"]

\* C9: once an error (an Exception) raised by a step of get_artifact's try
\* block has left get_artifact, the directory is cleaned up and the
\* exception that propagates is the one that was raised.
C9_CleanupBeforeErrorPropagates ==
    (/\ ga_error.step \in {"open", "download", "write", "unzip", "remove"}
     /\ ga_error.exception # "SystemExit"
     /\ fpc # "ga_raising") =>
        /\ fpc \in {"uncaught", "raised"}
        /\ tmpdir = "cleaned"
        /\ exc = ga_error.exception
        /\ fpc = "raised" => exit_code = 1

\* C9 witness: the download failed with an error the predicate refuses and
\* the run ended on it with the directory cleaned up
C9_Witness ==
    /\ fpc = "raised"
    /\ ga_error = [step |-> "download", exception |-> "HTTPError"]
    /\ exc = "HTTPError"
    /\ tmpdir = "cleaned"

\* C10: whenever control has left get_artifact and the loader, by a return,
\* an exception or the rate-limit exit, the temporary directory that was
\* created has been released.
C10_DirectoryReleasedOnEveryExit ==
    fpc \in {"uncaught", "returned", "raised", "exited"} => tmpdir # "created"

\* a file the condition of line 267 accepts: boards, a first board with
\* sizes, a first size with maximum
WellFormedFile(f) ==
    /\ f.json
    /\ "boards" \in DOMAIN f.data
    /\ Len(f.data.boards) > 0
    /\ "sizes" \in DOMAIN f.data.boards[1]
    /\ Len(f.data.boards[1].sizes) > 0
    /\ "maximum" \in DOMAIN f.data.boards[1].sizes[1]

\* a file of the old format: no boards, or a first size without maximum
OldFormatFile(f) ==
    /\ f.json
    /\ \/ "boards" \notin DOMAIN f.data
       \/ /\ Len(f.data.boards) > 0
          /\ "sizes" \in DOMAIN f.data.boards[1]
          /\ Len(f.data.boards[1].sizes) > 0
          /\ "maximum" \notin DOMAIN f.data.boards[1].sizes[1]

WellFormedNames == {f \in DOMAIN directory : WellFormedFile(directory[f])}

\* C11: on a folder of well-formed and old-format files the loader returns
\* one entry per well-formed file and no other, in increasing file-name
\* order, each entry being the content of its file.
C11_OneEntryPerWellFormedFileSorted ==
    (/\ lpc = "returned"
     /\ \A f \in DOMAIN directory :
           WellFormedFile(directory[f]) \/ OldFormatFile(directory[f])) =>
        /\ Len(gsr_reports) = Cardinality(WellFormedNames)
        /\ Len(retained_files) = Len(gsr_reports)
        /\ {retained_files[k] : k \in 1..Len(retained_files)} = WellFormedNames
        /\ \A k, m \in 1..Len(retained_files) :
              k < m => retained_files[k] < retained_files[m]
        /\ \A k \in 1..Len(gsr_reports) :
              gsr_reports[k] = directory[retained_files[k]].data

\* C11 witness: an old-format file listed before a well-formed file with two
\* boards that carry sizes; one entry is returned
C11_Witness ==
    /\ lpc = "returned"
    /\ DOMAIN directory = {1, 2}
    /\ OldFormatFile(directory[1])
    /\ WellFormedFile(directory[2])
    /\ Len(directory[2].data.boards) = 2
    /\ \A b \in 1..2 : "sizes" \in DOMAIN directory[2].data.boards[b]
    /\ retained_files = <<2>>

\* C12: when every file of the folder parses as structured data the loader
\* never raises: a file without boards, with an empty boards list, with a
\* first board without sizes or with empty sizes, or without maximum is
\* skipped; and every entry returned has a board that carries sizes.
C12_IncompleteFileSkippedNeverAnError ==
    (\A f \in DOMAIN directory : directory[f].json) =>
        /\ lpc # "raised"
        /\ exc = "none"
        /\ \A k \in 1..Len(gsr_reports) :
              \E b \in 1..Len(gsr_reports[k].boards) :
                  "sizes" \in DOMAIN gsr_reports[k].boards[b]

Occurs(x, s) == \E k \in 1..Len(s) : s[k] = x

\* C13: once the actual reports are loaded and the list is empty, the
\* comparator is never entered, the loader's diagnostic is the only output
\* about it, no error annotation is printed and the run ends with status 0.
C13_EmptyActualIsNoOpSuccess ==
    (Occurs("actual_loaded", trace) /\ sketches_reports = <<>>) =>
        /\ cpc = "idle"
        /\ ~Occurs("comparator", trace)
        /\ Occurs(NoDataLine, stdout)
        /\ ~Occurs(ErrorLine, stdout)
        /\ rpc = "done"
        /\ exit_code = 0

\* C13 witness: a local folder of one old-format file and a database that
\* says Blink compiles
C13_Witness ==
    /\ rpc = "done"
    /\ sketches_reports = <<>>
    /\ Len(directory) = 1
    /\ Len(database_report) = 1
    /\ database_report[1].compilation_success = "true"
    /\ exit_code = 0

\* C14: the database is fetched, then loaded, before the loader is entered
\* for the actual reports; the comparator runs only after both loads; a run
\* that fails before the database is loaded ends without reading an actual
\* report and without a verdict.
C14_DatabaseThenActualThenComparator ==
    /\ rpc = "start" => (trace = <<>> /\ lpc = "idle" /\ cpc = "idle")
    /\ rpc = "database_load" => (trace = <<"database_fetched">> /\ cpc = "idle")
    /\ rpc = "local_load" =>
          (trace = <<"database_fetched", "database_loaded">> /\ cpc = "idle")
    /\ cpc # "idle" =>
          /\ trace = <<"database_fetched", "database_loaded", "actual_loaded", "comparator">>
          /\ rpc = "compare"
          /\ lpc = "returned"
    /\ (rpc \in {"uncaught", "raised"} /\ ~Occurs("database_loaded", trace)) =>
          /\ ~Occurs("actual_loaded", trace)
          /\ sketches_reports = <<>>
          /\ database_report = <<>>
          /\ cpc = "idle"
          /\ ~Occurs(ErrorLine, stdout)
          /\ exit_code \in {-1, 1}
    /\ rpc = "raised" => exit_code = 1

\* C14 witness: the second file of the database folder raised in the
\* loader and the run ended with status 1 before any actual report
C14_Witness ==
    /\ rpc = "raised"
    /\ trace = <<"database_fetched">>
    /\ lpc = "raised"
    /\ file_index = 2
    /\ exc = "IndexError"
    /\ tmpdir = "cleaned"

\* C15: get_json_response gives page_count 0 and additional_pages False for
\* an empty body whatever the Link header says; for a non-empty body the
\* page count is the page of the header's "last" relation, 1 without one;
\* additional_pages is True exactly when page_count > 1.
C15_PageCountResolution ==
    [][(apc = "json" /\ apc' = "for") =>
          LET body == response_data.body
              entries == response_data.Link.entries
              lasts == {k \in 1..Len(entries) : entries[k].rel = "last"}
              result == api_data'[active]
          IN  /\ Falsy(body) => (result.page_count = 0 /\ ~result.additional_pages)
              /\ (~Falsy(body) /\ (~response_data.Link.present \/ lasts = {}))
                    => result.page_count = 1
              /\ (~Falsy(body) /\ response_data.Link.present /\ lasts # {})
                    => \E k \in lasts : result.page_count = entries[k].page
              /\ result.additional_pages <=> result.page_count > 1]_vars

\* C15 witness: a page of pull requests resolved to 2 pages, a page of runs
\* resolved to 1 page, and an artifacts object without artifacts resolved
\* to 1 page
C15_Witness ==
    /\ active = "artifacts"
    /\ apc = "for"
    /\ api_data["pulls"] = [additional_pages |-> TRUE, page_count |-> 2]
    /\ api_data["runs"] = [additional_pages |-> FALSE, page_count |-> 1]
    /\ api_data["artifacts"] = [additional_pages |-> FALSE, page_count |-> 1]
    /\ left["artifacts"] = 0
    /\ requests["artifacts"] = <<1>>

\* a condition of lines 127-156 under which the pull request is passed over
SkipCase ==
    /\ active = "pulls"
    /\ \/ apc = "body" /\ (pr_data.locked \/ pr_data.reported)
       \/ apc = "url" /\ artifact_download_url = "None"
       \/ apc = "reports" /\ sketches_reports = <<>>
       \/ apc = "reports" /\ sketches_reports # <<>>
                          /\ sketches_reports[1].commit_hash # pr_data.sha

\* C16: the comparator has run for the current pull request only if the
\* request is not locked, has no report yet, an artifact URL was found, the
\* loaded list is not empty and its first report carries the head commit;
\* a pull request failing one of these is passed over: the loop goes to the
\* next pull request with nothing compared and no exit.
C16_ComparatorOnlyForFreshReports ==
    /\ [](cpc # "idle" =>
            /\ ~pr_data.locked
            /\ ~pr_data.reported
            /\ artifact_download_url \in {"url1", "url2"}
            /\ sketches_reports # <<>>
            /\ sketches_reports[1].commit_hash = pr_data.sha)
    /\ [][SkipCase =>
            /\ apc' = "for"
            /\ active' = "pulls"
            /\ cpc' = "idle"
            /\ UNCHANGED <<left, page_number, page_count, api_data, stdout, exit_code>>]_vars

\* C16 witness: a stale list was passed over (its second report is of the
\* head commit and fails) and the loop is at the next pull request
C16_Witness ==
    /\ apc = "for"
    /\ active = "pulls"
    /\ cpc = "idle"
    /\ Len(sketches_reports) = 2
    /\ sketches_reports[1].commit_hash # pr_data.sha
    /\ sketches_reports[2].commit_hash = pr_data.sha
    /\ sketches_reports[2].compilation_success = "false"
    /\ left["pulls"] = 1

\* C17: every loop requests pages 1, 2, 3, ... in this order, page k+1 only
\* if the response to page k reported at least k+1 pages; at the loop test
\* the count compared is the one most recently reported (1 before the first
\* request), the loop requests the page if its number is within that count
\* and ends otherwise; after one request that reported 0 or 1 page the loop
\* ends; no loop makes more requests than the largest page count reported.
C17_PagesInOrderUntilCountExceeded ==
    /\ [](\A level \in Levels :
            /\ requests[level] = [k \in 1..Len(requests[level]) |-> k]
            /\ Len(requests[level]) <= MaxPages
            /\ (apc = "while" /\ active = level /\ requests[level] = <<>>)
                  => (page_number[level] = 1 /\ page_count[level] = 1))
    /\ [][\A level \in Levels :
            /\ (requests'[level] # requests[level] /\ requests'[level] # <<>>) =>
                  /\ requests'[level] = Append(requests[level], Len(requests[level]) + 1)
                  /\ requests[level] # <<>> =>
                        Len(requests[level]) + 1 <= api_data[level].page_count
            /\ (apc = "while" /\ active = level) =>
                  IF page_number[level] <= page_count[level]
                  THEN /\ apc' = "http"
                       /\ requests'[level] = Append(requests[level], page_number[level])
                  ELSE /\ apc' \in {"done", "url", "for"}
                       /\ requests'[level] = <<>>
            /\ (apc = "for" /\ apc' = "while" /\ active = level) =>
                  /\ page_number'[level] = page_number[level] + 1
                  /\ page_count'[level] = api_data[level].page_count
            /\ (apc = "while" /\ active = level /\ Len(requests[level]) = 1
                  /\ api_data[level].page_count <= 1) =>
                  apc' # "http"]_vars

\* C17 witness: each of the three loops has requested its second page
C17_Witness ==
    /\ requests["pulls"] = <<1, 2>>
    /\ requests["runs"] = <<1, 2>>
    /\ requests["artifacts"] = <<1, 2>>
    /\ apc = "http"

\* C19: a compared pull request with a report that is inconsistent with the
\* database ends the process with the annotation and status 1, and nothing
\* is done after the exit; a compared pull request without one leaves the
\* loop where it is, to go on with the next pull request.
C19_FirstInconsistentPullRequestEndsRun ==
    [][/\ apc # "exited"
       /\ (apc = "reports" /\ sketches_reports # <<>>
             /\ sketches_reports[1].commit_hash = pr_data.sha) =>
             IF \E k \in 1..Len(sketches_reports) :
                   Inconsistent(sketches_reports[k], database_report)
             THEN /\ apc' = "exited"
                  /\ exit_code' = 1
                  /\ stdout' = Append(stdout, ErrorLine)
             ELSE /\ apc' = "for"
                  /\ active' = "pulls"
                  /\ UNCHANGED <<left, page_number, page_count, api_data, stdout, exit_code>>]_vars

\* C19 witness: the run has ended with status 1 on the second page of pull
\* requests while one more pull request of that page was never reached
C19_Witness ==
    /\ apc = "exited"
    /\ cpc = "exited"
    /\ exit_code = 1
    /\ stdout = <<ErrorLine>>
    /\ requests["pulls"] = <<1, 2>>
    /\ left["pulls"] = 1

\* C20: get_artifact_download_url_for_sha returns a URL exactly when a report
\* artifact was listed for a run of the head commit; an artifact of that
\* name is returned at once with its own URL and any other is passed over;
\* a run is asked for its artifacts exactly when its head_sha is the head
\* commit; None is returned only when no page of runs is left.
C20_FirstReportArtifactOfMatchingRun ==
    /\ [](apc = "url" => (artifact_download_url # "None" <=> match_listed))
    /\ [][/\ (active = "artifacts" /\ apc = "body") =>
                IF artifact_data.name = sketches_reports_source
                THEN /\ apc' = "url"
                     /\ active' = "pulls"
                     /\ artifact_download_url' = artifact_data.archive_download_url
                ELSE /\ apc' = "for"
                     /\ active' = "artifacts"
          /\ (active = "runs" /\ apc = "body") =>
                (active' = "artifacts" <=> run_data.head_sha = pr_data.sha)
          /\ (active = "runs" /\ active' = "artifacts") => apc = "body"
          /\ (apc' = "url" /\ artifact_download_url' = "None") =>
                /\ active = "runs"
                /\ requests["runs"] # <<>>
                /\ left["runs"] = 0
                /\ page_number["runs"] > page_count["runs"]]_vars

\* C20 witness: the URL of a report artifact is back in the loop over the
\* pull requests
C20_Witness ==
    /\ apc = "url"
    /\ active = "pulls"
    /\ artifact_download_url = "url2"
    /\ match_listed

\* C18: in a call for a URL of the API host at most two calls of
\* raw_http_request are open, the inner one for the rate-limit endpoint,
\* which is not gated itself; every open of the target comes right after a
\* rate-limit query; each pass of the outer loop makes at most 4 rate-limit
\* opens and either opens the target or logs the failure of the query as its
\* attempt, retried under the same predicate; so the target is opened at most
\* 4 times and the rate-limit endpoint at most 16 times; and every call that
\* has begun ends.
C18_BoundedOpensAndTermination ==
    /\ [](url # <<>> /\ url[1] = "https://api.github.com" =>
            /\ Len(frames) <= 2
            /\ \A f \in 1..Len(frames) : frames[f].url = (IF f = 1 THEN url ELSE RateLimitUrl)
            /\ Cardinality(OpensOf(url)) <= 4
            /\ Cardinality(OpensOf(RateLimitUrl)) <= 16
            /\ \A k \in OpensOf(url) : k > 1 /\ opens[k - 1].url = RateLimitUrl
            /\ frames # <<>> =>
                  LET outer == frames[1]
                      failed == {k \in OpensOf(url) : opens[k].outcome \in UrlopenExceptions}
                  IN  /\ outer.retry_count <= 4
                      /\ Cardinality(OpensOf(RateLimitUrl)) <= 4 * outer.retry_count
                      /\ Cardinality(OpensOf(url)) + Len(outer.attempts) - Cardinality(failed)
                            <= outer.retry_count
                      /\ AllRetryable(outer.attempts, Len(outer.attempts) - 1))
    /\ (frames # <<>>) ~> (frames = <<>>)

\* C18 witness: four passes of the outer loop, in each the rate-limit query
\* failed four times, and the call ended without one open of the target
C18_Witness ==
    /\ url = ApiRequestUrl
    /\ frames = <<>>
    /\ Cardinality(OpensOf(RateLimitUrl)) = 16
    /\ OpensOf(url) = {}
    /\ done_call.url = ApiRequestUrl
    /\ done_call.via = "exhausted"
    /\ done_call.attempts = <<"TimeoutError", "TimeoutError", "TimeoutError", "TimeoutError">>

====
